---- MODULE Spec2Model ----
(***************************************************************************)
(* Model of src/src/ascii_file.rs: EsriASCIIReader (from_file,             *)
(* build_index, get_index, into_iter) and EsriASCIIRasterIntoIterator      *)
(* (next), over a byte-level model of the underlying seekable stream.      *)
(*                                                                         *)
(* The stream is a sequence of one-character strings.  Stream positions    *)
(* are 0-based byte offsets, as in SeekFrom::Start; file[p + 1] is the     *)
(* byte at offset p.                                                       *)
(***************************************************************************)
EXTENDS Integers, Sequences, FiniteSets, TLC

\* ------------------------------------------------------------------ bounds
MaxRows == 2
MaxCols == 2
\* width of usize in the model (the arithmetic of next() wraps modulo 2^w
\* in a build without overflow checks)
UsizeBits == 16

VARIABLES
    nrows,             \* header.nrows
    ncols,             \* header.ncols
    content,           \* the data lines the stream was written from: a
                       \* sequence of lines, each a sequence of tokens
    file,              \* the bytes of the stream: header, then data section
    data_start,        \* EsriASCIIReader.data_start
    rdr,               \* the reader: [line_cache, line_start_cache, pos]
    twin,              \* a second reader over the same stream that receives
                       \* the same get_index calls and never build_index
    iter,              \* EsriASCIIRasterIntoIterator: [pos, line, row, col]
    yielded,           \* the items next() has returned so far, in order
    exhausted,         \* next() has returned None at least once
    mode,              \* "reader" | "iter" | "aborted" (after a panic)
    last               \* the last call: operation, arguments, result, I/O

vars == <<nrows, ncols, content, file, data_start, rdr, twin, iter, yielded,
          exhausted, mode, last>>

\* ------------------------------------------------------- sequences, bytes
RECURSIVE Pow2(_)
Pow2(n) == IF n = 0 THEN 1 ELSE 2 * Pow2(n - 1)

UsizeMod == Pow2(UsizeBits)

RECURSIVE Concat(_)
Concat(ss) == IF ss = <<>> THEN <<>> ELSE Head(ss) \o Concat(Tail(ss))

DigitChars == <<"0", "1", "2", "3", "4", "5", "6", "7", "8", "9">>

IsDigit(c) == \E d \in 1..10 : DigitChars[d] = c

DigitVal(c) == (CHOOSE d \in 1..10 : DigitChars[d] = c) - 1

RECURSIVE Digits(_)
Digits(n) ==
    IF n < 10 THEN <<DigitChars[n + 1]>>
    ELSE Digits(n \div 10) \o <<DigitChars[(n % 10) + 1]>>

\* ------------------------------------------------------------ the stream
\* The value written at column j (0-based) of physical data line i
\* (0-based, line 0 being the first line after the header): distinct for
\* distinct cells, with one- and two-digit tokens so that lines differ in
\* byte length.
CellValue(i, j) == i * (MaxCols + 2) + j + 7

BadToken == <<"x">>

\* The tokens of physical line i under a defect d:
\*   "short"  one token fewer than nc      "long"  one token more than nc
\*   "bad"    token d.col is not a number  "none"  exactly nc numbers
LineTokens(i, nc, d) ==
    LET w == IF d.kind = "short" /\ d.line = i THEN nc - 1
             ELSE IF d.kind = "long" /\ d.line = i THEN nc + 1
             ELSE nc
    IN [j \in 1..w |->
            IF d.kind = "bad" /\ d.line = i /\ d.col = j - 1
            THEN BadToken ELSE Digits(CellValue(i, j - 1))]

NoDefect == [kind |-> "none", line |-> 0, col |-> 0]

Defects(nl, nc) ==
    {NoDefect}
    \cup {[kind |-> k, line |-> i, col |-> 0] :
              k \in {"short", "long"}, i \in 0..(nl - 1)}
    \cup {[kind |-> "bad", line |-> i, col |-> j] :
              i \in 0..(nl - 1), j \in 0..(nc - 1)}

\* line endings the stream is written with
Styles == {[eol |-> <<"\n">>, final |-> TRUE],
           [eol |-> <<"\n">>, final |-> FALSE],
           [eol |-> <<"\r", "\n">>, final |-> TRUE]}

RECURSIVE JoinWith(_, _)
JoinWith(ss, sep) ==
    IF ss = <<>> THEN <<>>
    ELSE IF Len(ss) = 1 THEN ss[1]
    ELSE ss[1] \o sep \o JoinWith(Tail(ss), sep)

\* the bytes of the data section
Render(ls, style) ==
    LET texts == [i \in 1..Len(ls) |-> JoinWith(ls[i], <<" ">>)]
    IN IF ls = <<>> THEN <<>>
       ELSE JoinWith(texts, style.eol)
            \o (IF style.final THEN style.eol ELSE <<>>)

\* the header's cellsize, and its lower-left corner (xllcorner, yllcorner)
cellsize == 2

min_x == 0

min_y == 0

\* the bytes of the header, which from_file consumes
HeaderBytes(nr, nc, style) ==
    Concat(<< <<"n", "c", "o", "l", "s", " ">>, Digits(nc), style.eol,
              <<"n", "r", "o", "w", "s", " ">>, Digits(nr), style.eol,
              <<"x", "l", "l", "c", "o", "r", "n", "e", "r", " ">>,
              Digits(min_x), style.eol,
              <<"y", "l", "l", "c", "o", "r", "n", "e", "r", " ">>,
              Digits(min_y), style.eol,
              <<"c", "e", "l", "l", "s", "i", "z", "e", " ">>,
              Digits(cellsize), style.eol >>)

\* BufRead::lines().next() at stream position p: the line without its
\* terminator ("\n", or "\r\n"), and the position after the terminator;
\* eof when no byte is left.
RECURSIVE LineEnd(_)
LineEnd(p) ==
    IF p >= Len(file) THEN p
    ELSE IF file[p + 1] = "\n" THEN p
    ELSE LineEnd(p + 1)

ReadLine(p) ==
    IF p >= Len(file) THEN [eof |-> TRUE, line |-> <<>>, pos |-> p]
    ELSE LET e == LineEnd(p)
             terminated == e < Len(file)
             raw == SubSeq(file, p + 1, e)
             text == IF terminated /\ raw # <<>> /\ raw[Len(raw)] = "\r"
                     THEN SubSeq(raw, 1, Len(raw) - 1) ELSE raw
         IN [eof |-> FALSE, line |-> text,
             pos |-> IF terminated THEN e + 1 ELSE e]

\* str::split_whitespace
IsSpace(c) == c \in {" ", "\t", "\r", "\n"}

RECURSIVE SplitFrom(_, _, _)
SplitFrom(s, i, cur) ==
    IF i > Len(s) THEN (IF cur = <<>> THEN <<>> ELSE <<cur>>)
    ELSE IF IsSpace(s[i])
         THEN (IF cur = <<>> THEN <<>> ELSE <<cur>>) \o SplitFrom(s, i + 1, <<>>)
         ELSE SplitFrom(s, i + 1, Append(cur, s[i]))

split_whitespace(s) == SplitFrom(s, 1, <<>>)

\* str::parse::<f64> on the tokens of the model's alphabet: a non-empty
\* string of decimal digits parses to its value, anything else is an error
ParseOk(tok) == tok # <<>> /\ \A i \in 1..Len(tok) : IsDigit(tok[i])

RECURSIVE ParseVal(_)
ParseVal(tok) ==
    IF tok = <<>> THEN 0
    ELSE 10 * ParseVal(SubSeq(tok, 1, Len(tok) - 1)) + DigitVal(tok[Len(tok)])

\* line.split_whitespace().map(|s| s.parse().unwrap()).collect():
\* panics when some token does not parse
ParseLine(text) ==
    LET toks == split_whitespace(text)
    IN [panic |-> \E i \in 1..Len(toks) : ~ParseOk(toks[i]),
        ntokens |-> Len(toks),
        values |-> [i \in 1..Len(toks) |->
                        IF ParseOk(toks[i]) THEN ParseVal(toks[i]) ELSE 0]]

\* ---------------------------------------------------------------- results
Res(kind, err, row, col, val) ==
    [kind |-> kind, err |-> err, row |-> row, col |-> col, val |-> val]

Ok(v) == Res("Ok", "", 0, 0, v)
OkUnit == Res("Ok", "", 0, 0, 0)
Err(e) == Res("Err", e, 0, 0, 0)
Panic == Res("Panic", "", 0, 0, 0)
NoneRes == Res("None", "", 0, 0, 0)
Some(r, c, v) == Res("Some", "", r, c, v)
NoRes == Res("-", "", 0, 0, 0)

\* what a call did: the reader after it, its result, the number of seeks
\* and of lines read, and the token count of the line it parsed (-1: none)
Outcome(self, res, seeks, reads, parsed) ==
    [self |-> self, res |-> res, seeks |-> seeks, reads |-> reads,
     parsed |-> parsed]

EmptyCache == [r \in {} |-> <<>>]

\* from_file
NewReader(start) ==
    [line_cache |-> EmptyCache, line_start_cache |-> <<>>, pos |-> start]

\* ------------------------------------------------- EsriASCIIReader methods
\* a cache that keeps only the row inserted last
CacheInsert_SingleRow(cache, row, values) == [r \in {row} |-> values]

\* HashMap::insert
CacheInsert(cache, row, values) ==
    [r \in (DOMAIN cache) \cup {row} |->
        IF r = row THEN values ELSE cache[r]]

\* the guard of build_index: it scans only when this holds
ShouldScan(self) == DOMAIN self.line_cache = {}

\* build_index without the reverse: offsets kept in physical order
Reverse_Forgotten(s) == s

\* Vec::reverse
Reverse(s) == [i \in 1..Len(s) |-> s[Len(s) + 1 - i]]

\* the loop recording the position after each line instead of before it
RECURSIVE ScanRows_After(_, _)
ScanRows_After(p, line_starts) ==
    IF Len(line_starts) >= nrows
    THEN [eof |-> FALSE, pos |-> p, line_starts |-> line_starts]
    ELSE LET rl == ReadLine(p)
         IN IF rl.eof
            THEN [eof |-> TRUE, pos |-> rl.pos,
                  line_starts |-> Append(line_starts, rl.pos)]
            ELSE ScanRows_After(rl.pos, Append(line_starts, rl.pos))

\* the loop of build_index from stream position p with the offsets
\* recorded so far: one stream_position and one lines().next() per row
RECURSIVE ScanRows(_, _)
ScanRows(p, line_starts) ==
    IF Len(line_starts) >= nrows
    THEN [eof |-> FALSE, pos |-> p, line_starts |-> line_starts]
    ELSE LET rl == ReadLine(p)
         IN IF rl.eof
            THEN [eof |-> TRUE, pos |-> rl.pos,
                  line_starts |-> Append(line_starts, p)]
            ELSE ScanRows(rl.pos, Append(line_starts, p))

build_index(self) ==
    IF ShouldScan(self)
    THEN LET scan == ScanRows(data_start, <<>>)
         IN IF scan.eof
            THEN Outcome([self EXCEPT !.pos = scan.pos],
                         Err("UnexpectedEof"), 1,
                         Len(scan.line_starts) - 1, -1)
            ELSE Outcome([self EXCEPT
                              !.pos = scan.pos,
                              !.line_start_cache = Reverse(scan.line_starts)],
                         OkUnit, 1, Len(scan.line_starts), -1)
    ELSE Outcome(self, OkUnit, 0, 0, -1)

\* the bounds check with > for >=
OutOfBounds_OffByOne(row, col) == row > nrows \/ col > ncols

\* the bounds check of get_index
OutOfBounds(row, col) == row >= nrows \/ col >= ncols

\* the scan walking to line row, counted from the top
ScanTarget_TopDown(row) == row

\* the physical line the scan of get_index walks to when no index exists
ScanTarget(row) == nrows - 1 - row

\* the offset get_index seeks to when an index exists
IndexedStart(self, row) == self.line_start_cache[row + 1]

\* Lines::nth(n) from stream position p: reads up to n + 1 lines
RECURSIVE Nth(_, _, _)
Nth(p, n, reads) ==
    LET rl == ReadLine(p)
    IN IF rl.eof THEN [eof |-> TRUE, line |-> <<>>, pos |-> rl.pos,
                       reads |-> reads]
       ELSE IF n = 0 THEN [eof |-> FALSE, line |-> rl.line, pos |-> rl.pos,
                           reads |-> reads + 1]
       ELSE Nth(rl.pos, n - 1, reads + 1)

\* get_index scanning from data_start whether or not an index exists
FetchLine_AlwaysScan(self, row) ==
    [seeks |-> 1] @@ Nth(data_start, ScanTarget(row), 0)

\* the line get_index reads for an uncached row, with its I/O; eof stands
\* for the None that get_index unwraps.  Indexing line_start_cache past
\* its end panics before any seek.
FetchLine(self, row) ==
    IF self.line_start_cache = <<>>
    THEN [seeks |-> 1] @@ Nth(data_start, ScanTarget(row), 0)
    ELSE IF row >= Len(self.line_start_cache)
    THEN [seeks |-> 0, eof |-> TRUE, line |-> <<>>, pos |-> self.pos,
          reads |-> 0]
    ELSE [seeks |-> 1] @@ Nth(IndexedStart(self, row), 0, 0)

\* the tail of get_index once the line is read: parse, insert, index
ParseAndCache(self, row, col, fetched) ==
    LET parsed == ParseLine(fetched.line)
        moved == [self EXCEPT !.pos = fetched.pos]
    IN IF fetched.eof
       THEN Outcome(moved, Panic, fetched.seeks, fetched.reads, -1)
       ELSE IF parsed.panic
       THEN Outcome(moved, Panic, fetched.seeks, fetched.reads,
                    parsed.ntokens)
       ELSE LET kept == [moved EXCEPT !.line_cache =
                            CacheInsert(self.line_cache, row, parsed.values)]
            IN IF col >= Len(parsed.values)
               THEN Outcome(kept, Panic, fetched.seeks, fetched.reads,
                            parsed.ntokens)
               ELSE Outcome(kept, Ok(parsed.values[col + 1]), fetched.seeks,
                            fetched.reads, parsed.ntokens)

\* get_index without the cache lookup
CacheHit_Never(self, row) == FALSE

\* self.line_cache.get(&row) is Some
CacheHit(self, row) == row \in DOMAIN self.line_cache

get_index(self, row, col) ==
    IF OutOfBounds(row, col)
    THEN Outcome(self, Err("InvalidInput"), 0, 0, -1)
    ELSE IF CacheHit(self, row)
    THEN IF col >= Len(self.line_cache[row])
         THEN Outcome(self, Panic, 0, 0, -1)
         ELSE Outcome(self, Ok(self.line_cache[row][col + 1]), 0, 0, -1)
    ELSE ParseAndCache(self, row, col, FetchLine(self, row))

\* usize subtraction: a build with overflow checks panics on underflow, a
\* build without them wraps
Underflows(a, b) == a < b

WrappingSub(a, b) == (a - b + UsizeMod) % UsizeMod

\* --------------------------------------------------- the header's geometry
\* Coordinates are integers; with cellsize 2 the cells' representative
\* coordinates are the even ones and the odd ones lie between two cells.
max_x == min_x + (ncols - 1) * cellsize

max_y == min_y + (nrows - 1) * cellsize

\* the representative coordinate of a cell, None outside the raster
index_pos(row, col) ==
    IF row >= nrows \/ col >= ncols
    THEN [none |-> TRUE, x |-> 0, y |-> 0]
    ELSE [none |-> FALSE, x |-> min_x + col * cellsize,
          y |-> min_y + row * cellsize]

Min(a, b) == IF a <= b THEN a ELSE b

\* (v / cellsize).floor() as usize: the cast saturates below at 0
FloorCell(v) == IF v < 0 THEN 0 ELSE v \div cellsize

\* the cell a coordinate falls in, None outside the bounding box
index_of(x, y) ==
    IF x < min_x \/ x > max_x \/ y < min_y \/ y > max_y
    THEN [none |-> TRUE, col |-> 0, row |-> 0]
    ELSE [none |-> FALSE,
          col |-> Min(FloorCell(x - min_x), ncols - 1),
          row |-> Min(FloorCell(y - min_y), nrows - 1)]

\* ------------------------------------------------------ coordinate queries
\* what get or get_interpolate did: as Outcome, with the number of
\* get_index calls made
CoordOutcome(self, res, seeks, reads, gets) ==
    [self |-> self, res |-> res, seeks |-> seeks, reads |-> reads,
     gets |-> gets]

\* get: index_of, then get_index(row, col).unwrap().  A Some result
\* carries the cell's value.
get(self, x, y) ==
    LET at == index_of(x, y)
        out == get_index(self, at.row, at.col)
    IN IF at.none THEN CoordOutcome(self, NoneRes, 0, 0, 0)
       ELSE IF out.res.kind = "Ok"
       THEN CoordOutcome(out.self, Some(0, 0, out.res.val),
                         out.seeks, out.reads, 1)
       ELSE CoordOutcome(out.self, Panic, out.seeks, out.reads, 1)

\* the bounds test with the y comparisons left out
OutsideBox_XOnly(x, y) == x < min_x \/ x > max_x

\* the bounds test of get_interpolate
OutsideBox(x, y) == x < min_x \/ x > max_x \/ y < min_y \/ y > max_y

\* n - 2 in usize without overflow checks
ClampLimit(n) == WrappingSub(n, 2)

\* the lower-left cell of the 2x2 block get_interpolate blends
LowerLeft(x, y) ==
    [col |-> Min(FloorCell(x - min_x), ClampLimit(ncols)),
     row |-> Min(FloorCell(y - min_y), ClampLimit(nrows))]

\* the four cells get_interpolate fetches, in the order ll, lr, ul, ur
Corners(ll) ==
    << [row |-> ll.row, col |-> ll.col],
       [row |-> ll.row, col |-> ll.col + 1],
       [row |-> ll.row + 1, col |-> ll.col],
       [row |-> ll.row + 1, col |-> ll.col + 1] >>

\* get_index(..).unwrap() on each cell in turn, from the reader self with
\* the values fetched so far; stops at the first call that is not Ok
RECURSIVE FetchCorners(_, _, _, _, _)
FetchCorners(self, cells, vals, seeks, reads) ==
    IF cells = <<>>
    THEN [self |-> self, panic |-> FALSE, vals |-> vals, seeks |-> seeks,
          reads |-> reads]
    ELSE LET out == get_index(self, Head(cells).row, Head(cells).col)
         IN IF out.res.kind = "Ok"
            THEN FetchCorners(out.self, Tail(cells),
                              Append(vals, out.res.val),
                              seeks + out.seeks, reads + out.reads)
            ELSE [self |-> out.self, panic |-> TRUE,
                  vals |-> Append(vals, 0), seeks |-> seeks + out.seeks,
                  reads |-> reads + out.reads]

\* the bilinear blend of ll, lr, ul, ur at the point (x, y), times
\* cellsize * cellsize: the weights are kept as exact fractions of cellsize
Blend(vals, x, y, ll_x, ll_y) ==
    LET ll == vals[1]
        lr == vals[2]
        ul == vals[3]
        ur == vals[4]
        vert_weight == x - ll_x
        horiz_weight == y - ll_y
        ll_weight == (cellsize - vert_weight) * (cellsize - horiz_weight)
        ur_weight == vert_weight * horiz_weight
        ul_weight == (cellsize - vert_weight) * horiz_weight
        lr_weight == vert_weight * (cellsize - horiz_weight)
    IN ul * ul_weight + ur * ur_weight + ll * ll_weight + lr * lr_weight

\* get_interpolate, in a build with (checked = TRUE) or without overflow
\* checks.  A Some result carries the blend times cellsize * cellsize.
get_interpolate(self, x, y, checked) ==
    LET ll == LowerLeft(x, y)
        at == index_pos(ll.row, ll.col)
        got == FetchCorners(self, Corners(ll), <<>>, 0, 0)
    IN IF OutsideBox(x, y) THEN CoordOutcome(self, NoneRes, 0, 0, 0)
       ELSE IF checked /\ (Underflows(ncols, 2) \/ Underflows(nrows, 2))
       THEN CoordOutcome(self, Panic, 0, 0, 0)
       ELSE IF at.none THEN CoordOutcome(self, Panic, 0, 0, 0)
       ELSE IF got.panic
       THEN CoordOutcome(got.self, Panic, got.seeks, got.reads,
                         Len(got.vals))
       ELSE CoordOutcome(got.self,
                         Some(0, 0, Blend(got.vals, x, y, at.x, at.y)),
                         got.seeks, got.reads, Len(got.vals))

\* ------------------------------------------------------------ the iterator
\* next() reporting the physical line number as the row
ReportedRow_Physical(current_row) == current_row

\* the row next() reports for physical line current_row
ReportedRow(current_row) == WrappingSub(nrows - 1, current_row)

\* into_iter reading on from wherever the reader's stream stands
Sought_NoSeek(self) == self

\* reader.rewind() and reader.seek(SeekFrom::Start(self.data_start))
Sought(self) ==
    LET rewound == [self EXCEPT !.pos = 0]
    IN [rewound EXCEPT !.pos = data_start]

\* into_iter: rewind, seek to data_start, read and parse the first line
into_iter(self) ==
    LET sought == Sought(self)
        rl == ReadLine(sought.pos)
        parsed == ParseLine(rl.line)
        it == [pos |-> rl.pos, line |-> <<>>, row |-> 0, col |-> 0]
    IN IF rl.eof
       THEN [panic |-> TRUE, it |-> it, reads |-> 0, parsed |-> -1]
       ELSE IF parsed.panic
       THEN [panic |-> TRUE, it |-> it, reads |-> 1,
             parsed |-> parsed.ntokens]
       ELSE [panic |-> FALSE, it |-> [it EXCEPT !.line = parsed.values],
             reads |-> 1, parsed |-> parsed.ntokens]

\* the two tests with > for >=
LineDone_OffByOne(it) == it.col > ncols

RowsDone_OffByOne(it) == it.row > nrows

\* the two tests of next(): the current line is used up; the last row
\* is behind
LineDone(it) == it.col >= ncols

RowsDone(it) == it.row >= nrows

\* the first half of next(): advance to the next physical line when the
\* current one is used up.  done: next() returns None here.  parsed is
\* the token count of the line read (-1: none).
Advance(it) ==
    IF LineDone(it)
    THEN LET moved == [it EXCEPT !.row = it.row + 1, !.col = 0]
             rl == ReadLine(it.pos)
             parsed == ParseLine(rl.line)
         IN IF RowsDone(moved)
            THEN [done |-> TRUE, panic |-> FALSE, it |-> moved,
                  parsed |-> -1]
            ELSE IF rl.eof
            THEN [done |-> FALSE, panic |-> TRUE,
                  it |-> [moved EXCEPT !.pos = rl.pos], parsed |-> -1]
            ELSE IF parsed.panic
            THEN [done |-> FALSE, panic |-> TRUE,
                  it |-> [moved EXCEPT !.pos = rl.pos],
                  parsed |-> parsed.ntokens]
            ELSE [done |-> FALSE, panic |-> FALSE,
                  it |-> [moved EXCEPT !.pos = rl.pos,
                                       !.line = parsed.values],
                  parsed |-> parsed.ntokens]
    ELSE [done |-> FALSE, panic |-> FALSE, it |-> it, parsed |-> -1]

\* next(), in a build with (checked = TRUE) or without overflow checks
next(it, checked) ==
    LET adv == Advance(it)
        cur == adv.it
        stepped == [cur EXCEPT !.col = cur.col + 1]
        taken == [stepped EXCEPT !.line = Tail(stepped.line)]
    IN IF adv.done
       THEN [it |-> cur, res |-> NoneRes, parsed |-> adv.parsed]
       ELSE IF adv.panic
       THEN [it |-> cur, res |-> Panic, parsed |-> adv.parsed]
       ELSE IF stepped.line = <<>>
       THEN [it |-> stepped, res |-> Panic, parsed |-> adv.parsed]
       ELSE IF checked /\ Underflows(nrows - 1, cur.row)
       THEN [it |-> taken, res |-> Panic, parsed |-> adv.parsed]
       ELSE [it |-> taken,
             res |-> Some(ReportedRow(cur.row), cur.col, Head(stepped.line)),
             parsed |-> adv.parsed]

\* -------------------------------------------------------------- the system
NoIter == [pos |-> 0, line |-> <<>>, row |-> 0, col |-> 0]

Call(op, row, col, res, twin_res, seeks, reads, parsed) ==
    [op |-> op, row |-> row, col |-> col, res |-> res, twin |-> twin_res,
     seeks |-> seeks, reads |-> reads, parsed |-> parsed,
     x |-> 0, y |-> 0, gets |-> 0]

\* a call of get or get_interpolate at the coordinates (x, y), with the
\* number of get_index calls it made
CoordCall(op, x, y, out) ==
    [op |-> op, row |-> 0, col |-> 0, res |-> out.res, twin |-> NoRes,
     seeks |-> out.seeks, reads |-> out.reads, parsed |-> -1,
     x |-> x, y |-> y, gets |-> out.gets]

Init ==
    \E nr \in 1..MaxRows, nc \in 1..MaxCols, style \in Styles :
      \E nl \in 0..(nr + 1) :
        \E d \in Defects(nl, nc) :
          LET ls == [i \in 1..nl |-> LineTokens(i - 1, nc, d)]
              hdr == HeaderBytes(nr, nc, style)
          IN /\ nrows = nr
             /\ ncols = nc
             /\ content = ls
             /\ file = hdr \o Render(ls, style)
             /\ data_start = Len(hdr)
             /\ rdr = NewReader(Len(hdr))
             /\ twin = NewReader(Len(hdr))
             /\ iter = NoIter
             /\ yielded = <<>>
             /\ exhausted = FALSE
             /\ mode = "reader"
             /\ last = Call("from_file", 0, 0, NoRes, NoRes, 0, 0, -1)

Aborts(res) == res.kind = "Panic"

BuildIndex ==
    /\ mode = "reader"
    /\ LET out == build_index(rdr)
       IN /\ rdr' = out.self
          /\ last' = Call("build_index", 0, 0, out.res, NoRes,
                          out.seeks, out.reads, out.parsed)
    /\ UNCHANGED <<nrows, ncols, content, file, data_start, twin, iter,
                   yielded, exhausted, mode>>

GetIndex ==
    /\ mode = "reader"
    /\ \E row \in 0..nrows, col \in 0..ncols :
         LET out == get_index(rdr, row, col)
             shadow == get_index(twin, row, col)
         IN /\ rdr' = out.self
            /\ twin' = shadow.self
            /\ last' = Call("get_index", row, col, out.res, shadow.res,
                            out.seeks, out.reads, out.parsed)
            /\ mode' = IF Aborts(out.res) \/ Aborts(shadow.res)
                       THEN "aborted" ELSE "reader"
    /\ UNCHANGED <<nrows, ncols, content, file, data_start, iter, yielded,
                   exhausted>>

\* the coordinates the callers pass: the bounding box and one step around
XCoords == (min_x - 1)..(max_x + 1)

YCoords == (min_y - 1)..(max_y + 1)

\* the builds that differ on get_interpolate: with and without overflow
\* checks where n - 2 underflows, one build otherwise
Builds ==
    IF Underflows(ncols, 2) \/ Underflows(nrows, 2) THEN BOOLEAN
    ELSE {TRUE}

Get ==
    /\ mode = "reader"
    /\ \E x \in XCoords, y \in YCoords :
         \E out \in {get(rdr, x, y)}, shadow \in {get(twin, x, y)} :
            /\ rdr' = out.self
            /\ twin' = shadow.self
            /\ last' = CoordCall("get", x, y, out)
            /\ mode' = IF Aborts(out.res) \/ Aborts(shadow.res)
                       THEN "aborted" ELSE "reader"
    /\ UNCHANGED <<nrows, ncols, content, file, data_start, iter, yielded,
                   exhausted>>

GetInterpolate ==
    /\ mode = "reader"
    /\ \E x \in XCoords, y \in YCoords, checked \in Builds :
         \E out \in {get_interpolate(rdr, x, y, checked)},
            shadow \in {get_interpolate(twin, x, y, checked)} :
            /\ rdr' = out.self
            /\ twin' = shadow.self
            /\ last' = CoordCall("get_interpolate", x, y, out)
            /\ mode' = IF Aborts(out.res) \/ Aborts(shadow.res)
                       THEN "aborted" ELSE "reader"
    /\ UNCHANGED <<nrows, ncols, content, file, data_start, iter, yielded,
                   exhausted>>

IntoIter ==
    /\ mode = "reader"
    /\ LET out == into_iter(rdr)
       IN /\ iter' = out.it
          /\ mode' = IF out.panic THEN "aborted" ELSE "iter"
          /\ last' = Call("into_iter", 0, 0,
                          IF out.panic THEN Panic ELSE OkUnit, NoRes,
                          2, out.reads, out.parsed)
    \* the reader is consumed; rdr stays as it was when into_iter took it
    /\ UNCHANGED <<nrows, ncols, content, file, data_start, rdr, twin,
                   yielded, exhausted>>

IterNext ==
    /\ mode = "iter"
    /\ \E checked \in BOOLEAN :
         LET out == next(iter, checked)
         IN /\ iter' = out.it
            /\ yielded' = IF out.res.kind = "Some"
                          THEN Append(yielded, out.res) ELSE yielded
            /\ exhausted' = (exhausted \/ out.res.kind = "None")
            /\ mode' = IF Aborts(out.res) THEN "aborted" ELSE "iter"
            /\ last' = Call("next", 0, 0, out.res, NoRes, 0,
                            IF out.it.pos = iter.pos THEN 0 ELSE 1,
                            out.parsed)
    /\ UNCHANGED <<nrows, ncols, content, file, data_start, rdr, twin>>

\* random access by index and the consuming iterator
Next ==
    \/ BuildIndex
    \/ GetIndex
    \/ IntoIter
    \/ IterNext

Spec == Init /\ [][Next]_vars

\* every data line has exactly ncols numeric tokens
CleanLines ==
    \A i \in 1..Len(content) :
        /\ Len(content[i]) = ncols
        /\ \A j \in 1..Len(content[i]) : content[i][j] # BadToken

\* random access by index and by coordinate, over streams written with
\* "\n" line endings whose lines are clean: complete, truncated, or with
\* one line more than nrows
UnixStyle == [eol |-> <<"\n">>, final |-> TRUE]

InitQuery ==
    /\ Init
    /\ CleanLines
    /\ file = HeaderBytes(nrows, ncols, UnixStyle) \o Render(content, UnixStyle)

NextQuery ==
    \/ BuildIndex
    \/ GetIndex
    \/ Get
    \/ GetInterpolate

SpecQuery == InitQuery /\ [][NextQuery]_vars

\* =================================================================== claims
\* the file is well-formed: at least nrows data lines, each with exactly
\* ncols numeric tokens
WellFormed ==
    /\ Len(content) >= nrows
    /\ CleanLines

\* the number of lines of the data section
RECURSIVE CountLines(_)
CountLines(p) ==
    LET rl == ReadLine(p)
    IN IF rl.eof THEN 0 ELSE 1 + CountLines(rl.pos)

Truncated == CountLines(data_start) < nrows

Cells == nrows * ncols

\* C1: for a well-formed file, in every reader state, get_index(row, col)
\* with row < nrows and col < ncols returns Ok with the value written at
\* column col of physical data line nrows - 1 - row.
C1_GetIndexBottomUp ==
    (WellFormed /\ last.op = "get_index"
       /\ last.row < nrows /\ last.col < ncols)
    => last.res = Ok(CellValue(nrows - 1 - last.row, last.col))

C1_Witness ==
    /\ WellFormed /\ nrows = 2 /\ Len(content) = 3
    /\ last.op = "get_index" /\ last.row = 0 /\ last.col = 0
    /\ last.res = Ok(CellValue(1, 0))
    /\ last.reads = 2

\* C2: every get_index call returns the same result on the reader, where
\* build_index may have been called at any earlier point, as on the twin
\* reader that received the same get_index calls and never build_index.
C2_IndexIsPureOptimization ==
    last.op = "get_index" => last.res = last.twin

C2_Witness ==
    /\ WellFormed
    /\ last.op = "get_index" /\ last.res = Ok(CellValue(1, 0))
    /\ nrows = 2 /\ last.row = 0
    /\ Len(rdr.line_start_cache) = nrows
    /\ last.seeks = 1 /\ last.reads = 1

\* C3: for a well-formed file, every triple the iterator yields carries
\* the value get_index returns for its (row, col) on a reader over the
\* same file, and once the iterator is exhausted every cell of the raster
\* has been yielded.
C3_IteratorAgreesWithGetIndex ==
    WellFormed =>
      /\ \A i \in 1..Len(yielded) :
            get_index(NewReader(data_start), yielded[i].row,
                      yielded[i].col).res = Ok(yielded[i].val)
      /\ exhausted =>
            \A r \in 0..(nrows - 1), c \in 0..(ncols - 1) :
                \E i \in 1..Len(yielded) :
                    /\ yielded[i].row = r /\ yielded[i].col = c
                    /\ get_index(NewReader(data_start), r, c).res
                           = Ok(yielded[i].val)

C3_Witness ==
    /\ WellFormed /\ exhausted /\ nrows = 2 /\ ncols = 2
    /\ \E i \in 1..Len(yielded) :
          /\ yielded[i].row = 0 /\ yielded[i].col = 1
          /\ yielded[i].val = CellValue(1, 1)

\* C4: get_index with row >= nrows or col >= ncols returns the
\* invalid-input error without a seek or a read, and leaves the row
\* cache, the row index and the stream position as they were.
C4_OutOfBoundsNoEffect ==
    [][(last'.op = "get_index"
          /\ (last'.row >= nrows \/ last'.col >= ncols))
       => (/\ last'.res = Err("InvalidInput")
           /\ last'.seeks = 0 /\ last'.reads = 0
           /\ rdr' = rdr)]_vars

C4_Witness ==
    /\ last.op = "get_index" /\ last.row = nrows /\ last.col = 0
    /\ last.res = Err("InvalidInput")
    /\ DOMAIN rdr.line_cache # {}
    /\ rdr.line_start_cache # <<>>
    /\ rdr.pos # data_start

\* C5: whenever build_index returns Ok, the row index holds one offset
\* for each of the nrows data rows.
C5_OkMeansIndexBuilt ==
    (last.op = "build_index" /\ last.res.kind = "Ok")
    => Len(rdr.line_start_cache) = nrows

\* C6: on a data section of fewer than nrows lines, build_index called
\* while no index exists fails with UnexpectedEof, and leaves the row
\* index empty and the row cache as it was.
C6_TruncatedBuildFails ==
    [][(last'.op = "build_index" /\ Truncated
          /\ rdr.line_start_cache = <<>>)
       => (/\ last'.res = Err("UnexpectedEof")
           /\ rdr'.line_start_cache = <<>>
           /\ rdr'.line_cache = rdr.line_cache)]_vars

\* C7: build_index called while an index exists does no seek and no read
\* and leaves the row index, the row cache and the stream position as
\* they were.
C7_BuildIndexIdempotent ==
    [][(last'.op = "build_index" /\ rdr.line_start_cache # <<>>)
       => (/\ last'.seeks = 0 /\ last'.reads = 0
           /\ rdr' = rdr)]_vars

\* C8: for a well-formed file the iterator never yields more than
\* nrows * ncols items, does not panic before it is exhausted, and has
\* yielded exactly nrows * ncols items when next() returns None.
C8_IteratorTerminates ==
    WellFormed =>
      /\ Len(yielded) <= Cells
      /\ exhausted => Len(yielded) = Cells
      /\ (last.op \in {"into_iter", "next"} /\ last.res.kind = "Panic")
            => exhausted
      /\ (last.op = "next" /\ last.res.kind = "None")
            => Len(yielded) = Cells

C8_Witness ==
    /\ WellFormed /\ nrows = 2 /\ ncols = 2
    /\ last.op = "next" /\ last.res.kind = "None"
    /\ Len(yielded) = 4

\* C9: up to exhaustion the i-th item the iterator yields reports row
\* nrows - 1 - (i - 1) \div ncols and column (i - 1) % ncols, and for a
\* well-formed file that is the whole output: every cell once, top
\* physical line first, each line left to right.
C9_IterationOrder ==
    /\ (~exhausted \/ WellFormed) =>
          \A i \in 1..Len(yielded) :
              /\ yielded[i].row = nrows - 1 - ((i - 1) \div ncols)
              /\ yielded[i].col = (i - 1) % ncols
    /\ (WellFormed /\ exhausted) => Len(yielded) = Cells

C9_Witness ==
    /\ WellFormed /\ exhausted /\ nrows = 2 /\ ncols = 2
    /\ Len(yielded) = 4
    /\ yielded[1].row = 1 /\ yielded[1].col = 0
    /\ yielded[2].row = 1 /\ yielded[2].col = 1
    /\ yielded[3].row = 0 /\ yielded[3].col = 0
    /\ yielded[4].row = 0 /\ yielded[4].col = 1

\* C10: whenever get_index or the iterator parses a line whose token
\* count differs from ncols, the call fails, and the row cache holds no
\* row whose length differs from ncols.
C10_WrongTokenCountIsFatal ==
    /\ (last.op \in {"get_index", "into_iter", "next"}
          /\ last.parsed # -1 /\ last.parsed # ncols)
       => last.res.kind \in {"Err", "Panic"}
    /\ \A r \in DOMAIN rdr.line_cache : Len(rdr.line_cache[r]) = ncols

\* the coordinates (x, y) lie in [min_x, max_x] x [min_y, max_y]
InBox(x, y) == x >= min_x /\ x <= max_x /\ y >= min_y /\ y <= max_y

\* the coordinates (x, y) are the representative coordinate of a cell
OnNode(x, y) ==
    InBox(x, y) /\ (x - min_x) % cellsize = 0 /\ (y - min_y) % cellsize = 0

\* C11: get_interpolate(x, y) with x < min_x, x > max_x, y < min_y or
\* y > max_y returns None, makes no get_index call, does no seek and no
\* read, and leaves the row cache, the row index and the stream position
\* as they were.
C11_OutsideBoxIsAbsent ==
    [][(last'.op = "get_interpolate" /\ ~InBox(last'.x, last'.y))
       => (/\ last'.res = NoneRes
           /\ last'.gets = 0 /\ last'.seeks = 0 /\ last'.reads = 0
           /\ rdr' = rdr)]_vars

C11_Witness ==
    /\ last.op = "get_interpolate" /\ last.res = NoneRes
    /\ last.x = min_x /\ last.y = max_y + 1
    /\ DOMAIN rdr.line_cache # {}
    /\ rdr.line_start_cache # <<>>
    /\ rdr.pos # data_start

\* C12: for a well-formed file and a point on the representative
\* coordinate of the cell (row, col), get_interpolate returns the value
\* of that cell, the one written at column col of physical line
\* nrows - 1 - row.  (A Some result carries the blend times
\* cellsize * cellsize.)
C12_NodeValueIsExact ==
    (WellFormed /\ last.op = "get_interpolate" /\ OnNode(last.x, last.y))
    => last.res = Some(0, 0,
                       CellValue(nrows - 1 - (last.y - min_y) \div cellsize,
                                 (last.x - min_x) \div cellsize)
                         * cellsize * cellsize)

\* C12 on the grids that have a 2x2 block: at least two rows and two
\* columns
C12_NodeValueOnBlocks ==
    (nrows >= 2 /\ ncols >= 2) => C12_NodeValueIsExact

\* C13: the keys of the row cache are raster rows below nrows, it holds
\* at most nrows entries, and no call of build_index, get_index, get or
\* get_interpolate removes an entry or changes the values of one.
C13_CacheInsertOnly ==
    /\ [](/\ DOMAIN rdr.line_cache \subseteq 0..(nrows - 1)
          /\ Cardinality(DOMAIN rdr.line_cache) <= nrows)
    /\ [][\A r \in DOMAIN rdr.line_cache :
             /\ r \in DOMAIN rdr'.line_cache
             /\ rdr'.line_cache[r] = rdr.line_cache[r]]_vars

C13_Witness ==
    /\ last.op = "get" /\ last.res.kind = "Some" /\ last.seeks = 1
    /\ nrows = 2
    /\ DOMAIN rdr.line_cache = {0, 1}

RECURSIVE PhysLineStart(_, _)
PhysLineStart(i, from) ==
    IF i = 0 \/ from >= Len(file) THEN from
    ELSE PhysLineStart(IF file[from + 1] = "\n" THEN i - 1 ELSE i, from + 1)

\* C15 as stated: a non-empty row index holds at entry i the offset of
\* the first byte of physical data line i, entry 0 being the topmost line
\* of the file.
C15_IndexTopDown ==
    \A i \in 0..(Len(rdr.line_start_cache) - 1) :
        rdr.line_start_cache[i + 1] = PhysLineStart(i, data_start)

\* C15, amended: a non-empty row index has nrows entries and holds at
\* entry i the offset of the first byte of physical data line
\* nrows - 1 - i, entry 0 being the bottom line of the file (raster row 0).
C15_IndexBottomUp ==
    rdr.line_start_cache # <<>>
    => /\ Len(rdr.line_start_cache) = nrows
       /\ \A i \in 0..(nrows - 1) :
              rdr.line_start_cache[i + 1]
                  = PhysLineStart(nrows - 1 - i, data_start)

C15_Witness ==
    /\ last.op = "build_index" /\ last.res = OkUnit
    /\ nrows = 2
    /\ Len(rdr.line_start_cache) = 2
    /\ rdr.line_start_cache[2] = data_start
    /\ rdr.line_start_cache[1] > data_start

\* the items next() yields from the iterator it up to its first None or
\* abort, appended to items, with the way the run ends
RECURSIVE RunIter(_, _)
RunIter(it, items) ==
    LET out == next(it, TRUE)
    IN IF out.res.kind = "Some" THEN RunIter(out.it, Append(items, out.res))
       ELSE [items |-> items, end |-> out.res.kind]

\* into_iter on a reader just opened over the same file, and the run of
\* the iterator it gives
FreshIter == into_iter(NewReader(data_start))

FreshRun ==
    IF FreshIter.panic THEN [items |-> <<>>, end |-> "Panic"]
    ELSE RunIter(FreshIter.it, <<>>)

IsPrefix(s, t) == Len(s) <= Len(t) /\ \A i \in 1..Len(s) : s[i] = t[i]

\* C16: whatever build_index and get_index calls came before, into_iter
\* gives the iterator a freshly opened reader over the same file gives,
\* and the triples yielded up to the first None or abort are those of
\* that fresh iterator, ending the same way.
C16_IteratorIgnoresHistory ==
    /\ last.op = "into_iter"
       => /\ iter = FreshIter.it
          /\ (last.res = Panic) = FreshIter.panic
    /\ (last.op \in {"into_iter", "next"} /\ ~exhausted)
       => /\ IsPrefix(yielded, FreshRun.items)
          /\ (last.op = "next" /\ last.res = Panic)
             => (yielded = FreshRun.items /\ FreshRun.end = "Panic")
    /\ (last.op = "next" /\ exhausted)
       => (IsPrefix(FreshRun.items, yielded) /\ FreshRun.end = "None")

C16_Witness ==
    /\ last.op = "next" /\ last.res = NoneRes
    /\ nrows = 2 /\ WellFormed
    /\ yielded = FreshRun.items
    /\ Len(yielded) = nrows * ncols
    /\ rdr.pos # data_start
    /\ DOMAIN rdr.line_cache # {}
    /\ rdr.line_start_cache # <<>>

\* C17: with a row index built, get_index on an in-range row that is not
\* cached does exactly one seek, to the offset the index records for the
\* row, and reads exactly one line, whichever row it is; with no index,
\* on a well-formed file, it reads the nrows - row lines from data_start.
C17_IndexedReadIsOneLine ==
    [][(/\ last'.op = "get_index"
        /\ last'.row < nrows /\ last'.col < ncols
        /\ last'.row \notin DOMAIN rdr.line_cache)
       => /\ rdr.line_start_cache # <<>>
             => /\ last'.seeks = 1 /\ last'.reads = 1
                /\ rdr'.pos
                     = ReadLine(rdr.line_start_cache[last'.row + 1]).pos
          /\ (rdr.line_start_cache = <<>> /\ WellFormed)
             => (last'.seeks = 1 /\ last'.reads = nrows - last'.row)]_vars

C17_Witness ==
    /\ last.op = "get_index" /\ last.res.kind = "Ok"
    /\ nrows = 2 /\ ncols = 2
    /\ last.row = 0 /\ last.col = 1
    /\ rdr.line_start_cache # <<>>
    /\ last.seeks = 1 /\ last.reads = 1
    /\ last.twin = last.res
    /\ twin.pos = rdr.pos
    /\ twin.line_start_cache = <<>>

\* C18: on a well-formed file, for every header (single row and single
\* column included) and every coordinate inside the bounding box,
\* get_interpolate fetches four cells and returns a value; it does not
\* abort.
C18_InterpolateTotalInBox ==
    (WellFormed /\ last.op = "get_interpolate" /\ InBox(last.x, last.y))
    => (last.res.kind = "Some" /\ last.gets = 4)

\* C18 on the grids that have a 2x2 block
C18_InterpolateTotalOnBlocks ==
    (nrows >= 2 /\ ncols >= 2) => C18_InterpolateTotalInBox

\* C19: once next() has returned None, every later call of next()
\* returns None.
C19_NoneIsFinal ==
    [][(exhausted /\ last'.op = "next") => last'.res = NoneRes]_vars

\* C20: on a file with fewer than nrows data lines, all of them with
\* ncols numeric tokens, an in-range get_index returns a value or an
\* error; it does not abort.
C20_TruncatedNeverAborts ==
    (/\ Truncated /\ CleanLines
     /\ last.op = "get_index"
     /\ last.row < nrows /\ last.col < ncols)
    => last.res.kind \in {"Ok", "Err"}

====
